---- MODULE Spec2Model ----
(***************************************************************************)
(* A model of package niniteclassic (src/classic/classic.go): the          *)
(* configuration value Classic and its option setters, composeArgs, the    *)
(* process launcher start, the three line patterns, and the five verb      *)
(* operations that stream parsed records over a caller-supplied channel.   *)
(*                                                                         *)
(* The bytes of the subprocess's output, the lines read from it and the    *)
(* fields of the records are sequences of one-character strings, so that   *)
(* the line patterns are matched character by character.  The strings of   *)
(* the configuration and of the argument list, which the package only      *)
(* compares with "" and passes on, are TLA+ strings.                       *)
(***************************************************************************)
EXTENDS Integers, Sequences, FiniteSets, TLC

(***************************************************************************)
(* Bounds of the model.                                                    *)
(***************************************************************************)
\* the largest number of newline-terminated lines the subprocess writes
MaxLines == 2
\* the largest number of setter calls a caller makes before the verb operation
MaxCalls == 2

(***************************************************************************)
(* Regular expressions (Go regexp, Perl-like leftmost-first matching).     *)
(* A pattern is a tree of records; M gives every way the pattern matches   *)
(* at a position, in the order a backtracking matcher tries them, so the   *)
(* head of the list is the match regexp reports.                           *)
(***************************************************************************)
\* \s, the class [\t\n\f\r ]
WS == {"\t", "\n", "\f", "\r", " "}

Cls(S) == [t |-> "cls", neg |-> FALSE, set |-> S]
NotCls(S) == [t |-> "cls", neg |-> TRUE, set |-> S]
Lit(ch) == Cls({ch})
\* . matches any character but the newline (flag s is not set)
Dot == NotCls({"\n"})
Star(r) == [t |-> "star", r |-> r]
Cat(rs) == [t |-> "cat", rs |-> rs]
Plus(r) == Cat(<<r, Star(r)>>)
Opt(r) == [t |-> "opt", r |-> r]
Cap(n, r) == [t |-> "cap", n |-> n, r |-> r]
\* ^ and $ without flag m: the beginning and the end of the text
Bol == [t |-> "bol"]
Eol == [t |-> "eol"]

\* the sub-pattern shared by the three patterns: ^\s*(?P<app>[^:\r\n]+)\s+:\s+
AppPrefix ==
    <<Bol, Star(Cls(WS)), Cap(1, Plus(NotCls({":", "\r", "\n"}))),
      Plus(Cls(WS)), Lit(":"), Plus(Cls(WS))>>

statusMatch ==
    Cat(AppPrefix \o
        <<Cap(2, Plus(NotCls({"\r", "\n", "(", ")"}))),
          Opt(Cat(<<Plus(Cls(WS)), Lit("("), Cap(3, Plus(Dot)), Lit(")")>>)),
          Eol>>)

versionMatch ==
    Cat(AppPrefix \o
        <<Opt(Cap(2, Cls({"*", "("}))),
          Cap(3, Plus(NotCls({"\r", "\n", "(", ")"}))),
          Opt(Lit(")")),
          Eol>>)

auditMatch ==
    Cat(AppPrefix \o
        <<Cap(2, Plus(NotCls({"\r", "\n", "(", ")", "-"}))),
          Opt(Cat(<<Plus(Cls(WS)), Lit("-"), Plus(Cls(WS)), Cap(3, Plus(Dot))>>)),
          Eol>>)

NoCaps == <<<<>>, <<>>, <<>>>>

RECURSIVE M(_, _, _, _), MEach(_, _, _, _), MCat(_, _, _, _)

\* the matches of r from each entry of the frontier fr[j..], in order
MEach(r, s, fr, j) ==
    IF j > Len(fr) THEN <<>>
    ELSE M(r, s, fr[j].pos, fr[j].caps) \o MEach(r, s, fr, j + 1)

\* the matches of rs[k..] in sequence from the frontier fr
MCat(rs, k, s, fr) ==
    IF k > Len(rs) \/ fr = <<>> THEN fr
    ELSE MCat(rs, k + 1, s, MEach(rs[k], s, fr, 1))

\* the matches of r in s after i characters, with the captures caps so far
M(r, s, i, caps) ==
    LET here == <<[pos |-> i, caps |-> caps]>> IN
    CASE r.t = "bol" -> IF i = 0 THEN here ELSE <<>>
      [] r.t = "eol" -> IF i = Len(s) THEN here ELSE <<>>
      [] r.t = "cls" ->
            IF i < Len(s) /\ ((s[i + 1] \in r.set) # r.neg)
            THEN <<[pos |-> i + 1, caps |-> caps]>>
            ELSE <<>>
      [] r.t = "cat" -> MCat(r.rs, 1, s, here)
      [] r.t = "star" ->
            \* greedy: one more repetition is tried before stopping
            MEach(r, s, SelectSeq(M(r.r, s, i, caps), LAMBDA x : x.pos > i), 1)
                \o here
      [] r.t = "opt" -> M(r.r, s, i, caps) \o here
      [] r.t = "cap" ->
            LET sub == M(r.r, s, i, caps) IN
            [j \in 1..Len(sub) |->
                [pos |-> sub[j].pos,
                 caps |-> [sub[j].caps EXCEPT ![r.n] = SubSeq(s, i + 1, sub[j].pos)]]]

RECURSIVE FindFrom(_, _, _)
\* the leftmost match: the first start position at which re matches
FindFrom(re, s, k) ==
    IF k > Len(s) THEN <<>>
    ELSE LET ms == M(re, s, k, NoCaps) IN
         IF ms # <<>>
         THEN <<SubSeq(s, k + 1, ms[1].pos)>> \o ms[1].caps
         ELSE FindFrom(re, s, k + 1)

\* (*Regexp).FindStringSubmatch: <<whole, group 1, group 2, group 3>>, or the
\* empty sequence (nil) when s has no match
FindStringSubmatch(re, s) == FindFrom(re, s, 0)


(***************************************************************************)
(* The state.                                                              *)
(***************************************************************************)
VARIABLES
    \* the caller
    lists,          \* the caller's string arrays (the memory a []string points into)
    recv,           \* the configuration value the caller holds and calls methods on
    res,            \* the value the caller's last setter call returned
    calls,          \* the setters the caller has called, in order
    mode,           \* how the caller consumes the channel: "", "sync" or "conc"
    cpc,            \* the consumer: "none", "ranging", "done", "panicked"
    received,       \* the records the consumer has received, in order
    \* the verb operation (the producer)
    verb,           \* the operation called, "" before the call
    opc,            \* the operation's own copy of the receiver
    pc,             \* "idle", "start", "loop", "send", "stderr", "wait", "defer", "ret";
                    \* "panic" after Prefer
    launched,       \* the argument lists start() has composed, in order
    pending,        \* the record of a blocked send (a sequence of 0 or 1 records)
    stderrResult,   \* the local stderrResult: <<>> for nil, else <<content>>
    waited,         \* the number of cmd.Wait() calls made
    ret,            \* the error the operation returns: its kind and its text
    \* the channel
    chClosed,       \* the channel has been closed
    closes,         \* the number of close() calls made
    \* the subprocess and its pipes
    stdout,         \* the bytes written to stdout and not yet read
    stdoutOpen,     \* the subprocess has not closed stdout
    written,        \* every byte the subprocess has written to stdout
    stderrWritten,  \* what the subprocess wrote to stderr, known once read
    stderrFailed,   \* reading stderr failed
    stderrRead,     \* ioutil.ReadAll(stderr) has been called
    exitFailed,     \* the process exit reported a failure
    stderrBlocked   \* the subprocess is blocked in a write to a full stderr pipe

callerVars == <<lists, recv, res, calls, mode, cpc, received>>
opVars == <<verb, opc, pc, launched, pending, stderrResult, waited, ret>>
chanVars == <<chClosed, closes>>
procVars == <<stdout, stdoutOpen, written, stderrWritten, stderrFailed, stderrRead,
              exitFailed, stderrBlocked>>
vars == <<callerVars, opVars, chanVars, procVars>>

(***************************************************************************)
(* Classic, the configuration value (classic.go:18-52).  A []string is a   *)
(* slice header: the array it points into (0 for nil) and its length.      *)
(***************************************************************************)
NilSlice == [ptr |-> 0, len |-> 0]

\* the elements of a slice, read through the memory it points into
Elems(sl) == IF sl.ptr = 0 THEN <<>> ELSE SubSeq(lists[sl.ptr], 1, sl.len)

\* Classic{}, the zero value
ZeroClassic ==
    [path |-> "",
     locale |-> "",
     proxy |-> [server |-> "", port |-> 0],
     proxyAuth |-> [username |-> "", password |-> ""],
     selectedApps |-> NilSlice,
     excludedApps |-> NilSlice,
     remote |-> NilSlice,
     remoteAuth |-> [username |-> "", password |-> ""],
     disableShortcuts |-> FALSE,
     disableAutoUpdate |-> FALSE,
     allUsers |-> FALSE,
     cachePath |-> "",
     noCache |-> FALSE,
     cleanCache |-> FALSE,
     updateOnly |-> FALSE,
     uninstall |-> FALSE,
     freeze |-> [outputFilename |-> "", locales |-> <<>>],
     list |-> FALSE]

\* the file system NewClassic looks at: the directories and the regular files
ExePath == "NinitePro.exe"
Dirs == {".", "sub"}
Files == {ExePath, "sub/" \o ExePath}

\* os.Stat(path): what path names, or the error that nothing has that name
Stat(path) ==
    IF path \in Dirs THEN "dir" ELSE IF path \in Files THEN "file" ELSE "error"

\* filepath.Join(dir, name), which cleans "./name" to "name"
Join(dir, name) == IF dir \in {"", "."} THEN name ELSE dir \o "/" \o name

\* NewClassic: the pair (Classic, error) it returns, err "" for nil.  A path
\* that cannot be examined gives Classic{} and the error; a directory stands
\* for the NinitePro.exe in it; any other path is taken as the executable.
RECURSIVE NewClassic(_)
NewClassic(path) ==
    IF Stat(path) = "error" THEN [c |-> ZeroClassic, err |-> "stat " \o path]
    ELSE IF Stat(path) = "dir" THEN NewClassic(Join(path, ExePath))
    ELSE [c |-> [ZeroClassic EXCEPT !.path = path], err |-> ""]

\* strconv.Itoa
Digit == <<"0", "1", "2", "3", "4", "5", "6", "7", "8", "9">>
RECURSIVE Itoa(_)
Itoa(n) ==
    IF n < 0 THEN "-" \o Itoa(-n)
    ELSE IF n < 10 THEN Digit[n + 1]
    ELSE Itoa(n \div 10) \o Digit[(n % 10) + 1]

\* a plausible slip: the locale group appended after the verbs
composeArgsLocaleLast(c) ==
    <<"/silent", ".">>
    \o (IF c.proxy.server # "" /\ c.proxy.port # 0
        THEN <<"/proxy", c.proxy.server, Itoa(c.proxy.port)>> ELSE <<>>)
    \o (IF c.proxyAuth.username # "" /\ c.proxyAuth.password # ""
        THEN <<"/proxyauth", c.proxyAuth.username, c.proxyAuth.password>> ELSE <<>>)
    \o (IF c.selectedApps.len > 0 THEN <<"/select">> \o Elems(c.selectedApps) ELSE <<>>)
    \o (IF c.excludedApps.len > 0 THEN <<"/exclude">> \o Elems(c.excludedApps) ELSE <<>>)
    \o (IF c.remote.len > 0 THEN <<"/remote">> \o Elems(c.remote) ELSE <<>>)
    \o (IF c.remoteAuth.username # "" /\ c.remoteAuth.password # ""
        THEN <<"/remoteauth", c.remoteAuth.username, c.remoteAuth.password>> ELSE <<>>)
    \o (IF c.disableShortcuts THEN <<"/disableshortcuts">> ELSE <<>>)
    \o (IF c.disableAutoUpdate THEN <<"/disableautoupdate">> ELSE <<>>)
    \o (IF c.allUsers THEN <<"/allusers">> ELSE <<>>)
    \o (IF c.cachePath # "" THEN <<"/cachepath", c.cachePath>> ELSE <<>>)
    \o (IF c.noCache THEN <<"/nocache">> ELSE <<>>)
    \o (IF c.cleanCache THEN <<"/cleancache">> ELSE <<>>)
    \o (IF c.updateOnly THEN <<"/updateonly">> ELSE <<>>)
    \o (IF c.freeze.outputFilename # ""
        THEN <<"/freeze">> \o c.freeze.locales \o <<c.freeze.outputFilename>>
        ELSE <<>>)
    \o (IF c.list THEN <<"/list", "versions">> ELSE <<>>)
    \o (IF c.locale # "" THEN <<"/locale", c.locale>> ELSE <<>>)

\* a plausible slip: a two-part option emitted when either part is set
composeArgsEitherPart(c) ==
    <<"/silent", ".">>
    \o (IF c.locale # "" THEN <<"/locale", c.locale>> ELSE <<>>)
    \o (IF c.proxy.server # "" \/ c.proxy.port # 0
        THEN <<"/proxy", c.proxy.server, Itoa(c.proxy.port)>> ELSE <<>>)
    \o (IF c.proxyAuth.username # "" \/ c.proxyAuth.password # ""
        THEN <<"/proxyauth", c.proxyAuth.username, c.proxyAuth.password>> ELSE <<>>)
    \o (IF c.selectedApps.len > 0 THEN <<"/select">> \o Elems(c.selectedApps) ELSE <<>>)
    \o (IF c.excludedApps.len > 0 THEN <<"/exclude">> \o Elems(c.excludedApps) ELSE <<>>)
    \o (IF c.remote.len > 0 THEN <<"/remote">> \o Elems(c.remote) ELSE <<>>)
    \o (IF c.remoteAuth.username # "" \/ c.remoteAuth.password # ""
        THEN <<"/remoteauth", c.remoteAuth.username, c.remoteAuth.password>> ELSE <<>>)
    \o (IF c.disableShortcuts THEN <<"/disableshortcuts">> ELSE <<>>)
    \o (IF c.disableAutoUpdate THEN <<"/disableautoupdate">> ELSE <<>>)
    \o (IF c.allUsers THEN <<"/allusers">> ELSE <<>>)
    \o (IF c.cachePath # "" THEN <<"/cachepath", c.cachePath>> ELSE <<>>)
    \o (IF c.noCache THEN <<"/nocache">> ELSE <<>>)
    \o (IF c.cleanCache THEN <<"/cleancache">> ELSE <<>>)
    \o (IF c.updateOnly THEN <<"/updateonly">> ELSE <<>>)
    \o (IF c.freeze.outputFilename # ""
        THEN <<"/freeze">> \o c.freeze.locales \o <<c.freeze.outputFilename>>
        ELSE <<>>)
    \o (IF c.list THEN <<"/list", "versions">> ELSE <<>>)

\* composeArgs: the fixed flags, then each option group that is set, in order
composeArgs(c) ==
    <<"/silent", ".">>
    \o (IF c.locale # "" THEN <<"/locale", c.locale>> ELSE <<>>)
    \o (IF c.proxy.server # "" /\ c.proxy.port # 0
        THEN <<"/proxy", c.proxy.server, Itoa(c.proxy.port)>> ELSE <<>>)
    \o (IF c.proxyAuth.username # "" /\ c.proxyAuth.password # ""
        THEN <<"/proxyauth", c.proxyAuth.username, c.proxyAuth.password>> ELSE <<>>)
    \o (IF c.selectedApps.len > 0 THEN <<"/select">> \o Elems(c.selectedApps) ELSE <<>>)
    \o (IF c.excludedApps.len > 0 THEN <<"/exclude">> \o Elems(c.excludedApps) ELSE <<>>)
    \o (IF c.remote.len > 0 THEN <<"/remote">> \o Elems(c.remote) ELSE <<>>)
    \o (IF c.remoteAuth.username # "" /\ c.remoteAuth.password # ""
        THEN <<"/remoteauth", c.remoteAuth.username, c.remoteAuth.password>> ELSE <<>>)
    \o (IF c.disableShortcuts THEN <<"/disableshortcuts">> ELSE <<>>)
    \o (IF c.disableAutoUpdate THEN <<"/disableautoupdate">> ELSE <<>>)
    \o (IF c.allUsers THEN <<"/allusers">> ELSE <<>>)
    \o (IF c.cachePath # "" THEN <<"/cachepath", c.cachePath>> ELSE <<>>)
    \o (IF c.noCache THEN <<"/nocache">> ELSE <<>>)
    \o (IF c.cleanCache THEN <<"/cleancache">> ELSE <<>>)
    \o (IF c.updateOnly THEN <<"/updateonly">> ELSE <<>>)
    \o (IF c.freeze.outputFilename # ""
        THEN <<"/freeze">> \o c.freeze.locales \o <<c.freeze.outputFilename>>
        ELSE <<>>)
    \o (IF c.list THEN <<"/list", "versions">> ELSE <<>>)

(***************************************************************************)
(* The option setters (value receivers: each works on its own copy of the  *)
(* receiver and returns it).                                               *)
(***************************************************************************)
Locale(c, code) == [c EXCEPT !.locale = code]
Proxy(c, server, port) == [c EXCEPT !.proxy = [server |-> server, port |-> port]]
ProxyAuth(c, username, password) ==
    [c EXCEPT !.proxyAuth = [username |-> username, password |-> password]]
\* apps is the slice the caller spread into the call: it is stored, not copied
Select(c, apps) == [c EXCEPT !.selectedApps = apps]
Exclude(c, apps) == [c EXCEPT !.excludedApps = apps]
Remote(c, machines) == [c EXCEPT !.remote = machines]
RemoteAuth(c, username, password) ==
    [c EXCEPT !.remoteAuth = [username |-> username, password |-> password]]
DisableShortcuts(c) == [c EXCEPT !.disableShortcuts = TRUE]
DisableAutoUpdate(c) == [c EXCEPT !.disableAutoUpdate = TRUE]
AllUsers(c) == [c EXCEPT !.allUsers = TRUE]
CachePath(c, path) == [c EXCEPT !.cachePath = path]
NoCache(c) == [c EXCEPT !.noCache = TRUE]
CleanCache(c) == [c EXCEPT !.cleanCache = TRUE]


(***************************************************************************)
(* The verb operations' first statements: each sets its verb field on the  *)
(* operation's own copy of the receiver.                                   *)
(***************************************************************************)
UpdateOnlyVerb(c) == [c EXCEPT !.updateOnly = TRUE]
UninstallVerb(c) == [c EXCEPT !.uninstall = TRUE]
FreezeVerb(c, output, locales) ==
    [c EXCEPT !.freeze = [outputFilename |-> output, locales |-> locales]]
ListVerb(c) == [c EXCEPT !.list = TRUE]
\* a plausible slip: Audit launched without its verb
AuditVerbUnset(c) == c

AuditVerb(c) == [c EXCEPT !.list = TRUE]

(***************************************************************************)
(* The values the caller and the environment choose from.                  *)
(***************************************************************************)
\* the paths a caller gives NewClassic (the examples give ".")
Paths == {".", ExePath, "missing"}
LocaleCodes == {"", "en"}
Servers == {"", "px"}
Ports == {0, 8080}
Names == {"", "u"}
Passwords == {"", "pw"}
CachePaths == {"", "cache"}
FreezeOutputs == {"", "out.exe"}
FreezeLocales == {<<>>, <<"de", "fr">>}
\* the one list the caller owns and spreads into Select/Exclude/Remote
CallerList == <<"7zip", "chrome">>
\* the slices a caller passes: no arguments at all (nil), or its list spread
CallerSlices == {NilSlice, [ptr |-> 1, len |-> Len(CallerList)]}

\* an error value: kind "none" while the operation has not decided its result,
\* "nil" for a nil error, else the failure and its text
Error(kind, text) == [kind |-> kind, text |-> text]
NoError == Error("none", <<>>)

\* The state after `nc, err := NewClassic(path)`: the caller holds the value
\* returned and, like the examples, panics when err is not nil.
Init ==
    /\ lists = <<CallerList>>
    /\ \E path \in Paths :
        /\ recv = NewClassic(path).c
        /\ res = NewClassic(path).c
        /\ opc = NewClassic(path).c
        /\ pc = IF NewClassic(path).err = "" THEN "idle" ELSE "panic"
    /\ calls = <<>>
    /\ mode = ""
    /\ cpc = "none"
    /\ received = <<>>
    /\ verb = ""
    /\ launched = <<>>
    /\ pending = <<>>
    /\ stderrResult = <<>>
    /\ waited = 0
    /\ ret = NoError
    /\ chClosed = FALSE
    /\ closes = 0
    /\ stdout = <<>>
    /\ stdoutOpen = TRUE
    /\ written = <<>>
    /\ stderrWritten = <<>>
    /\ stderrFailed = FALSE
    /\ stderrRead = FALSE
    /\ exitFailed = FALSE
    /\ stderrBlocked = FALSE

(***************************************************************************)
(* The caller: a chain of setter calls, c.A(x).B(y)...  Each call is made  *)
(* on the value the call before returned; a setter has a value receiver,   *)
(* so the call leaves that value as it is.  recv keeps the receiver of the *)
(* last call, res what it returned.                                        *)
(***************************************************************************)
SetterCall(name, result) ==
    /\ pc = "idle"
    /\ Len(calls) < MaxCalls
    /\ recv' = res
    /\ res' = result
    /\ calls' = Append(calls, name)
    /\ UNCHANGED <<lists, mode, cpc, received, opVars, chanVars, procVars>>

SetLocale == \E code \in LocaleCodes : SetterCall("Locale", Locale(res, code))
SetProxy ==
    \E server \in Servers, port \in Ports :
        SetterCall("Proxy", Proxy(res, server, port))
SetProxyAuth ==
    \E u \in Names, p \in Passwords : SetterCall("ProxyAuth", ProxyAuth(res, u, p))
SetSelect == \E apps \in CallerSlices : SetterCall("Select", Select(res, apps))
SetExclude == \E apps \in CallerSlices : SetterCall("Exclude", Exclude(res, apps))
SetRemote == \E ms \in CallerSlices : SetterCall("Remote", Remote(res, ms))
SetRemoteAuth ==
    \E u \in Names, p \in Passwords : SetterCall("RemoteAuth", RemoteAuth(res, u, p))
SetDisableShortcuts == SetterCall("DisableShortcuts", DisableShortcuts(res))
SetDisableAutoUpdate == SetterCall("DisableAutoUpdate", DisableAutoUpdate(res))
SetAllUsers == SetterCall("AllUsers", AllUsers(res))
SetCachePath == \E path \in CachePaths : SetterCall("CachePath", CachePath(res, path))
SetNoCache == SetterCall("NoCache", NoCache(res))
SetCleanCache == SetterCall("CleanCache", CleanCache(res))

\* Prefer panics, whatever the receiver
CallPrefer ==
    /\ pc = "idle"
    /\ pc' = "panic"
    /\ UNCHANGED <<callerVars, verb, opc, launched, pending, stderrResult, waited, ret,
                   chanVars, procVars>>

\* the caller writes to the first element of its own list
CallerWrite ==
    /\ pc = "idle"
    /\ lists = <<CallerList>>
    /\ lists' = [lists EXCEPT ![1][1] = "other"]
    /\ UNCHANGED <<recv, res, calls, mode, cpc, received, opVars, chanVars, procVars>>

(***************************************************************************)
(* The caller calls a verb operation on the value its chain has built.     *)
(***************************************************************************)
CallVerb(name, copy) ==
    /\ pc = "idle"
    /\ verb' = name
    /\ opc' = copy
    /\ pc' = "start"
    /\ UNCHANGED <<callerVars, launched, pending, stderrResult, waited, ret, chanVars,
                   procVars>>

CallUpdateOnly == CallVerb("UpdateOnly", UpdateOnlyVerb(res))
CallUninstall == CallVerb("Uninstall", UninstallVerb(res))
CallFreeze ==
    \E output \in FreezeOutputs, locales \in FreezeLocales :
        CallVerb("Freeze", FreezeVerb(res, output, locales))
CallList == CallVerb("List", ListVerb(res))
CallAudit == CallVerb("Audit", AuditVerb(res))

(***************************************************************************)
(* start(): compose the arguments, make the pipes, start the process.      *)
(* A failure of any of the three steps is returned by the operation at     *)
(* once, before its deferred cmd.Wait() is registered.                     *)
(***************************************************************************)
StartOutcomes == {"ok", "stdoutpipe", "stderrpipe", "start"}
StartFailures == StartOutcomes \ {"ok"}

\* a plausible slip: the deferred cmd.Wait() registered before the error check
ReturnStartErrorDeferred(outcome) ==
    /\ pc' = "defer"
    /\ ret' = Error(outcome, <<>>)

\* `if err != nil { return err }` after start(), before `defer cmd.Wait()`
ReturnStartError(outcome) ==
    /\ pc' = "ret"
    /\ ret' = Error(outcome, <<>>)

Start ==
    /\ pc = "start"
    /\ launched' = Append(launched, [verb |-> verb, args |-> composeArgs(opc)])
    /\ \E outcome \in StartOutcomes :
        IF outcome = "ok"
        THEN pc' = "loop" /\ ret' = ret
        ELSE ReturnStartError(outcome)
    /\ UNCHANGED <<callerVars, verb, opc, pending, stderrResult, waited, chanVars,
                   procVars>>

CfgNext ==
    \/ SetLocale \/ SetProxy \/ SetProxyAuth \/ SetSelect \/ SetExclude \/ SetRemote
    \/ SetRemoteAuth \/ SetDisableShortcuts \/ SetDisableAutoUpdate \/ SetAllUsers
    \/ SetCachePath \/ SetNoCache \/ SetCleanCache \/ CallPrefer \/ CallerWrite
    \/ CallUpdateOnly \/ CallUninstall \/ CallFreeze \/ CallList \/ CallAudit
    \/ Start

\* the caller builds a configuration and launches a verb operation
SpecCfg == Init /\ [][CfgNext]_vars

(***************************************************************************)
(* The subprocess's output.                                                *)
(***************************************************************************)
NL == <<"\n">>
StatusLine ==
    <<"A", "p", "p", " ", "N", "a", "m", "e", " ", ":", " ",
      "I", "n", "s", "t", "a", "l", "l", "e", "d">>
ForcedLine == StatusLine \o <<" ", "(", "f", "o", "r", "c", "e", "d", ")">>
JunkLine == <<"D", "o", "n", "e", ".">>
\* what the subprocess writes to stdout in one write: a terminated line
OutLines == {StatusLine \o NL, ForcedLine \o NL, JunkLine \o NL}
\* the text the subprocess may write after its last newline
OutTails == {<<>>, StatusLine}
\* what the subprocess may have written to stderr by the time it is read
StderrData == {<<>>, <<"f", "a", "i", "l">>}

RECURSIVE CountNL(_)
CountNL(s) ==
    IF s = <<>> THEN 0 ELSE (IF Head(s) = "\n" THEN 1 ELSE 0) + CountNL(Tail(s))

\* the subprocess runs from a successful start() until its exit is collected
Running == pc \in {"loop", "send", "stderr", "wait"} \/ (pc = "defer" /\ waited = 0)

ProcWrite ==
    /\ Running
    /\ ~stderrBlocked
    /\ stdoutOpen
    /\ CountNL(written) < MaxLines
    /\ \E line \in OutLines :
        /\ stdout' = stdout \o line
        /\ written' = written \o line
    /\ UNCHANGED <<callerVars, opVars, chanVars, stdoutOpen, stderrWritten, stderrFailed,
                   stderrRead, exitFailed, stderrBlocked>>

\* the subprocess closes stdout, after a last write that may lack the newline
ProcCloseStdout ==
    /\ Running
    /\ ~stderrBlocked
    /\ stdoutOpen
    /\ stdoutOpen' = FALSE
    /\ \E tail \in OutTails :
        /\ stdout' = stdout \o tail
        /\ written' = written \o tail
    /\ UNCHANGED <<callerVars, opVars, chanVars, stderrWritten, stderrFailed,
                   stderrRead, exitFailed, stderrBlocked>>

\* the subprocess fills the stderr pipe, which nobody has read yet, and
\* blocks in its next write to it
ProcBlockStderr ==
    /\ Running
    /\ ~stderrRead
    /\ ~stderrBlocked
    /\ stderrBlocked' = TRUE
    /\ UNCHANGED <<callerVars, opVars, chanVars, stdout, stdoutOpen, written,
                   stderrWritten, stderrFailed, stderrRead, exitFailed>>

(***************************************************************************)
(* The loop of a verb operation.                                           *)
(***************************************************************************)
RECURSIVE IndexNL(_, _)
\* the position of the first newline of s at or after i, 0 when there is none
IndexNL(s, i) ==
    IF i > Len(s) THEN 0 ELSE IF s[i] = "\n" THEN i ELSE IndexNL(s, i + 1)

\* (*bufio.Reader).ReadString('\n') on the unread bytes buf of a stream that has
\* ended (eof) or not: the data up to and including the first newline; at the
\* end of the stream the data left and io.EOF.  It is called only when it can
\* return, see CanRead.
\* a plausible slip: at the end of the stream the text after the last newline
\* handed to the loop as one more line
ReadStringLastLine(buf, eof) ==
    LET n == IndexNL(buf, 1) IN
    IF n > 0
    THEN [line |-> SubSeq(buf, 1, n), rest |-> SubSeq(buf, n + 1, Len(buf)), err |-> "nil"]
    ELSE IF buf # <<>>
    THEN [line |-> buf, rest |-> <<>>, err |-> "nil"]
    ELSE [line |-> buf, rest |-> <<>>, err |-> "EOF"]

ReadString(buf, eof) ==
    LET n == IndexNL(buf, 1) IN
    IF n > 0
    THEN [line |-> SubSeq(buf, 1, n), rest |-> SubSeq(buf, n + 1, Len(buf)), err |-> "nil"]
    ELSE [line |-> buf, rest |-> <<>>, err |-> "EOF"]

\* a plausible slip: a reader that returns whole lines only and never
\* reports the end of the stream
CanReadLine(buf, eof) == IndexNL(buf, 1) > 0

CanRead(buf, eof) == IndexNL(buf, 1) > 0 \/ eof

\* the pattern each operation applies
Pattern(v) ==
    CASE v = "List" -> versionMatch
      [] v = "Audit" -> auditMatch
      [] OTHER -> statusMatch

\* the test `len(m) > 0` that guards the send
Matched(m) == Len(m) > 0

\* the AppVersion record of List: `if m[2] == "*" {...} else if m[2] == "(" {...}`
AppVersionOf(m) ==
    [App |-> m[2], Version |-> m[4],
     CurrentVersion |-> (m[3] = <<"*">>),
     AlternateVersion |-> (m[3] # <<"*">> /\ m[3] = <<"(">>)]

\* the AppAudit record of Audit: `if len(m[3]) > 0 { installed = true }`
AppAuditOf(m) ==
    [App |-> m[2], Status |-> m[3], Version |-> m[4],
     Installed |-> (Len(m[4]) > 0)]

\* the record each operation builds from the submatches m
RecordOf(v, m) ==
    CASE v \in {"UpdateOnly", "Uninstall"} ->
            [App |-> m[2], Status |-> m[3], Reason |-> m[4], Version |-> <<>>]
      [] v = "Freeze" ->
            [App |-> m[2], Status |-> <<>>, Reason |-> <<>>, Version |-> m[3]]
      [] v = "List" -> AppVersionOf(m)
      [] v = "Audit" -> AppAuditOf(m)

\* a plausible slip: the loop left at the end of the stream without the close
BreakOnly ==
    /\ UNCHANGED chanVars
    /\ pc' = "stderr"

\* `if err == io.EOF { close(ch); break }`
CloseAndBreak ==
    /\ chClosed' = TRUE
    /\ closes' = closes + 1
    /\ pc' = "stderr"

\* one turn of the loop: read a line; at the end of the stream close the
\* channel and leave the loop; else match the line and, on a match, send
ReadLine ==
    /\ pc = "loop"
    /\ CanRead(stdout, ~stdoutOpen)
    /\ LET r == ReadString(stdout, ~stdoutOpen)
           m == FindStringSubmatch(Pattern(verb), r.line)
       IN  /\ stdout' = r.rest
           /\ IF r.err = "EOF"
              THEN /\ CloseAndBreak
                   /\ pending' = pending
              ELSE /\ UNCHANGED chanVars
                   /\ IF Matched(m)
                      THEN pc' = "send" /\ pending' = <<RecordOf(verb, m)>>
                      ELSE pc' = "loop" /\ pending' = pending
    /\ UNCHANGED <<callerVars, verb, opc, launched, stderrResult, waited, ret,
                   stdoutOpen, written, stderrWritten, stderrFailed, stderrRead,
                   exitFailed, stderrBlocked>>

\* a plausible slip: every error of ReadString treated like io.EOF
CloseAndReturnReadError ==
    /\ chClosed' = TRUE
    /\ closes' = closes + 1
    /\ ret' = Error("read", <<>>)
    /\ pc' = "defer"

\* a plausible slip: the error returned with no deferred cmd.Wait()
ReturnReadErrorAtOnce ==
    /\ UNCHANGED chanVars
    /\ ret' = Error("read", <<>>)
    /\ pc' = "ret"

\* `else if err != nil { return err }`
ReturnReadError ==
    /\ UNCHANGED chanVars
    /\ ret' = Error("read", <<>>)
    /\ pc' = "defer"

\* ReadString fails with an error that is not io.EOF: the operation returns it
ReadFail ==
    /\ pc = "loop"
    /\ ReturnReadError
    /\ UNCHANGED <<callerVars, verb, opc, launched, pending, stderrResult, waited,
                   procVars>>

(***************************************************************************)
(* The consumer: `for app := range ch`.  A receive takes the record of a   *)
(* blocked send (the channel is unbuffered), or finds the channel closed   *)
(* and ends the loop.                                                      *)
(***************************************************************************)
Recv ==
    /\ cpc = "ranging"
    /\ pc = "send" \/ chClosed
    /\ IF pc = "send"
       THEN /\ received' = Append(received, pending[1])
            /\ pending' = <<>>
            /\ pc' = "loop"
            /\ cpc' = cpc
       ELSE /\ cpc' = "done"
            /\ UNCHANGED <<received, pending, pc>>
    /\ UNCHANGED <<lists, recv, res, calls, mode, verb, opc, launched, stderrResult,
                   waited, ret, chanVars, procVars>>

\* mode "conc": a goroutine of the caller starts to receive, at any time
\* after the call
ConsumerSpawn ==
    /\ pc \notin {"idle", "panic"}
    /\ cpc = "none"
    /\ cpc' = "ranging"
    /\ mode' = "conc"
    /\ UNCHANGED <<lists, recv, res, calls, received, opVars, chanVars, procVars>>

\* mode "sync", the examples: the caller itself, once the operation has
\* returned, panics on an error, else starts to receive
ConsumerStart ==
    /\ pc = "ret"
    /\ cpc = "none"
    /\ cpc' = IF ret.kind = "nil" THEN "ranging" ELSE "panicked"
    /\ mode' = "sync"
    /\ UNCHANGED <<lists, recv, res, calls, received, opVars, chanVars, procVars>>

(***************************************************************************)
(* After the loop: read all of stderr, wait for the exit, decide the       *)
(* result.                                                                 *)
(***************************************************************************)
ReadStderr ==
    /\ pc = "stderr"
    /\ \E data \in StderrData, failed \in BOOLEAN :
        /\ stderrBlocked => data # <<>>
        /\ stderrWritten' = data
        /\ stderrFailed' = failed
        /\ stderrResult' = IF ~failed /\ Len(data) > 0 THEN <<data>> ELSE <<>>
    /\ stderrRead' = TRUE
    /\ stderrBlocked' = FALSE
    /\ pc' = "wait"
    /\ UNCHANGED <<callerVars, verb, opc, launched, pending, waited, ret, chanVars,
                   stdout, stdoutOpen, written, exitFailed>>

\* the result after the loop: the failure of cmd.Wait(), else the text of
\* stderr as an error, else nil
WaitResult(failed, sr) ==
    IF failed THEN Error("exit", <<>>)
    ELSE IF sr # <<>> THEN Error("stderr", sr[1])
    ELSE Error("nil", <<>>)

Wait ==
    /\ pc = "wait"
    /\ ~stdoutOpen
    /\ \E failed \in BOOLEAN :
        /\ exitFailed' = failed
        /\ ret' = WaitResult(failed, stderrResult)
    /\ waited' = waited + 1
    /\ pc' = "defer"
    /\ UNCHANGED <<callerVars, verb, opc, launched, pending, stderrResult, chanVars,
                   stdout, stdoutOpen, written, stderrWritten, stderrFailed, stderrRead,
                   stderrBlocked>>

\* the deferred cmd.Wait() runs as the operation returns; its result is dropped
DeferredWait ==
    /\ pc = "defer"
    /\ waited > 0 \/ (~stdoutOpen /\ ~stderrBlocked)
    /\ waited' = waited + 1
    /\ pc' = "ret"
    /\ UNCHANGED <<callerVars, verb, opc, launched, pending, stderrResult, ret,
                   chanVars, procVars>>

Next ==
    \/ CallUpdateOnly \/ CallUninstall \/ CallFreeze \/ CallList \/ CallAudit
    \/ Start \/ ProcWrite \/ ProcCloseStdout \/ ProcBlockStderr \/ ReadLine \/ ReadFail \/ Recv
    \/ ConsumerSpawn \/ ConsumerStart \/ ReadStderr \/ Wait \/ DeferredWait

\* a caller runs one verb operation on a fresh configuration
Spec == Init /\ [][Next]_vars

\* The same with the scheduling the Go runtime and the operating system give:
\* the goroutine of the operation, the goroutine of the consumer and the
\* subprocess each take their next step when it stays possible.  The
\* subprocess need not write another line, may block on stderr, and a read
\* may or may not fail: none of these is forced.
\* ReadLine can be taken: ENABLED <<ReadLine>>_vars
ReadLineEnabled == pc = "loop" /\ CanRead(stdout, ~stdoutOpen)

\* WF_vars(ReadLine), written out with the enabling condition of ReadLine
FairReadLine == []<>(~ReadLineEnabled) \/ []<><<ReadLine>>_vars

Fairness ==
    /\ WF_vars(Start)
    /\ FairReadLine
    /\ WF_vars(ReadStderr)
    /\ WF_vars(Wait)
    /\ WF_vars(DeferredWait)
    /\ WF_vars(Recv)
    /\ WF_vars(ConsumerSpawn)
    /\ WF_vars(ProcCloseStdout)

SpecLive == Init /\ [][Next]_vars /\ Fairness

(***************************************************************************)
(* The line parsers on their own: each operation's pattern and record      *)
(* construction applied to one line as the loop reads it, that is, with    *)
(* the newline ReadString leaves at its end.  The line is given in written *)
(* and the record built, if the line matches, is left in pending.          *)
(***************************************************************************)
\* the characters the patterns tell apart, after the separator
ParseChars == {<<>>, <<"*">>, <<"(">>, <<")">>, <<"1">>, <<" ">>, <<"-">>}
\* every text of up to five of these characters
ParseTails ==
    {a \o b \o c \o d \o e : a \in ParseChars, b \in ParseChars, c \in ParseChars,
                             d \in ParseChars, e \in ParseChars}
ParsePrefix == <<"A", " ", ":", " ">>
VersionLine == <<"A", "p", "p", " ", "N", "a", "m", "e", " ", ":", " ", "*", "1", ".", "2", ".", "3">>
AuditLine == <<"A", "p", "p", " ", "N", "a", "m", "e", " ", ":", " ", "I", "n", "s", "t", "a", "l", "l", "e", "d", " ", "-", " ", "1", ".", "2", ".", "3">>
NotInstalledLine == <<"A", "p", "p", " ", "N", "a", "m", "e", " ", ":", " ", "N", "o", "t", " ", "I", "n", "s", "t", "a", "l", "l", "e", "d">>
\* the lines ReadString('\n') returns with a nil error: each ends in its
\* newline
ParseLines ==
    {ParsePrefix \o t \o NL : t \in ParseTails}
        \cup {l \o NL : l \in {VersionLine, AuditLine, NotInstalledLine,
                                StatusLine, ForcedLine}}
ParseVerbs == {"Uninstall", "List", "Audit"}

InitParse ==
    /\ lists = <<CallerList>>
    /\ recv = NewClassic(ExePath).c
    /\ res = NewClassic(ExePath).c
    /\ calls = <<>>
    /\ mode = ""
    /\ cpc = "none"
    /\ received = <<>>
    /\ verb \in ParseVerbs
    /\ opc = NewClassic(ExePath).c
    /\ pc = "parse"
    /\ launched = <<>>
    /\ pending = <<>>
    /\ stderrResult = <<>>
    /\ waited = 0
    /\ ret = NoError
    /\ chClosed = FALSE
    /\ closes = 0
    /\ stdout = <<>>
    /\ stdoutOpen = TRUE
    /\ written \in ParseLines
    /\ stderrWritten = <<>>
    /\ stderrFailed = FALSE
    /\ stderrRead = FALSE
    /\ exitFailed = FALSE
    /\ stderrBlocked = FALSE

\* `if m := pattern.FindStringSubmatch(line); len(m) > 0 { record }`
Parse ==
    /\ pc = "parse"
    /\ LET m == FindStringSubmatch(Pattern(verb), written) IN
       pending' = IF Matched(m) THEN <<RecordOf(verb, m)>> ELSE <<>>
    /\ pc' = "parsed"
    /\ UNCHANGED <<callerVars, verb, opc, launched, stderrResult, waited, ret,
                   chanVars, procVars>>

SpecParse == InitParse /\ [][Parse]_vars

(***************************************************************************)
(* Properties.                                                             *)
(***************************************************************************)
\* the flags that open the option groups, in the documented order
GroupFlags ==
    <<"/locale", "/proxy", "/proxyauth", "/select", "/exclude", "/remote",
      "/remoteauth", "/disableshortcuts", "/disableautoupdate", "/allusers",
      "/cachepath", "/nocache", "/cleancache", "/updateonly", "/freeze", "/list">>

\* the place of a in GroupFlags, 0 when a is no group flag
FlagIndex(a) ==
    IF \E i \in 1..Len(GroupFlags) : GroupFlags[i] = a
    THEN CHOOSE i \in 1..Len(GroupFlags) : GroupFlags[i] = a
    ELSE 0

OrderOK(args) ==
    /\ Len(args) >= 1
    /\ args[1] = "/silent"
    /\ \A i \in 2..Len(args) : args[i] # "/silent"
    /\ \A i, j \in 1..Len(args) :
        (i < j /\ FlagIndex(args[i]) > 0 /\ FlagIndex(args[j]) > 0)
            => FlagIndex(args[i]) < FlagIndex(args[j])

\* C1: whatever setters were called, in whatever order, the composed
\* arguments start with /silent and the flags of the groups emitted follow
\* the fixed order locale, proxy, ..., cleancache, updateonly, freeze, list,
\* each at most once.
C1_ArgsOrder ==
    /\ OrderOK(composeArgs(recv))
    /\ OrderOK(composeArgs(res))
    /\ \A k \in 1..Len(launched) : OrderOK(launched[k].args)

\* C1: CleanCache was called before Locale, and List launched with the locale
\* group first, the cleancache group second, the list group last.
C1_Witness ==
    /\ calls = <<"CleanCache", "Locale">>
    /\ launched # <<>>
    /\ launched[1].args =
        <<"/silent", ".", "/locale", "en", "/cleancache", "/list", "versions">>

\* the lines of s that end in a newline, each with its newline
RECURSIVE TerminatedLines(_)
TerminatedLines(s) ==
    LET n == IndexNL(s, 1) IN
    IF n = 0 THEN <<>>
    ELSE <<SubSeq(s, 1, n)>> \o TerminatedLines(SubSeq(s, n + 1, Len(s)))

\* the text of a terminated line: the line without its newline
LineText(line) == SubSeq(line, 1, Len(line) - 1)

\* the records operation v owes for the lines ls: one for each line whose
\* text matches the pattern of v, in the order of the lines
RECURSIVE RecordsFor(_, _)
RecordsFor(v, ls) ==
    IF ls = <<>> THEN <<>>
    ELSE LET m == FindStringSubmatch(Pattern(v), LineText(Head(ls))) IN
         (IF m # <<>> THEN <<RecordOf(v, m)>> ELSE <<>>) \o RecordsFor(v, Tail(ls))

IsPrefix(p, q) == Len(p) =< Len(q) /\ SubSeq(q, 1, Len(p)) = p

\* C2: the records the consumer receives are the records of the lines written
\* whose text matches the pattern, in the order written: never more than a
\* prefix of them, and all of them once the consumer has seen the close.
C2_RecordsAreMatchedLines ==
    /\ IsPrefix(received, RecordsFor(verb, TerminatedLines(written)))
    /\ cpc = "done" => received = RecordsFor(verb, TerminatedLines(written))

\* the run got io.EOF from stdout: it left the loop by the break
ReachedEOF == pc \in {"stderr", "wait"} \/ ret.kind \in {"nil", "exit", "stderr"}

\* C3: once stdout has reached its end the channel has been closed, exactly
\* once; no send is pending or can follow the close; and while the channel
\* is open stderr has not been read and no exit awaited after the loop.
C3_CloseOnceAfterLoop ==
    /\ closes =< 1
    /\ chClosed <=> closes = 1
    /\ ReachedEOF => chClosed
    /\ chClosed => pc \notin {"loop", "send"} /\ pending = <<>> /\ ~ENABLED ReadLine
    /\ ~chClosed => ~stderrRead /\ (waited > 0 => ret.kind = "read")

\* C3: lines were written, stdout ended, and the channel is closed while
\* stderr is still unread and the exit not yet awaited.
C3_Witness ==
    /\ chClosed
    /\ closes = 1
    /\ pc = "stderr"
    /\ CountNL(written) = MaxLines
    /\ ~stderrRead
    /\ waited = 0

\* the operation has returned after its loop ended at the end of stdout
ReturnedAfterLoop == pc = "ret" /\ stderrRead

\* C4: after the end of stdout, an exit failure is returned
\* whatever stderr held; with a clean exit the content written to stderr, if
\* any, is returned; nil is returned only with a clean exit and empty stderr.
C4_ExitThenStderr ==
    ReturnedAfterLoop =>
        /\ exitFailed => ret = Error("exit", <<>>)
        /\ (~exitFailed /\ stderrWritten # <<>>) => ret = Error("stderr", stderrWritten)
        /\ ret.kind = "nil" => (~exitFailed /\ stderrWritten = <<>>)

\* C5: called the way the examples call (no consumer until the operation has
\* returned, then the caller receives: mode "sync"), the operation is never
\* blocked in a send that nobody will take, and once the caller's receive
\* loop has ended the caller has received the record of every line whose text
\* matches the pattern.
C5_ExampleUsage ==
    /\ pc = "send" => cpc = "ranging"
    /\ (mode = "sync" /\ cpc = "done")
            => received = RecordsFor(verb, TerminatedLines(written))

AppName == <<"A", "p", "p", " ", "N", "a", "m", "e">>
Installed == <<"I", "n", "s", "t", "a", "l", "l", "e", "d">>
Forced == <<"f", "o", "r", "c", "e", "d">>

\* C6: when the subprocess wrote the one line `App Name : Installed` with its
\* newline, the consumer of UpdateOnly or Uninstall has received, by the time
\* it sees the close, the one record App Name / Installed / no reason; for
\* `App Name : Installed (forced)` the record with reason forced.
C6_StatusLineDelivered ==
    (verb \in {"UpdateOnly", "Uninstall"} /\ cpc = "done") =>
        /\ written = StatusLine \o NL =>
            received = <<[App |-> AppName, Status |-> Installed, Reason |-> <<>>,
                          Version |-> <<>>]>>
        /\ written = ForcedLine \o NL =>
            received = <<[App |-> AppName, Status |-> Installed, Reason |-> Forced,
                          Version |-> <<>>]>>

VerbFlags == {"/updateonly", "/uninstall", "/freeze", "/list"}

VerbFlagOf(v) ==
    CASE v = "UpdateOnly" -> "/updateonly"
      [] v = "Uninstall" -> "/uninstall"
      [] v = "Freeze" -> "/freeze"
      [] v \in {"List", "Audit"} -> "/list"

\* C7: every launch carries exactly one verb flag, the flag of the operation
\* called, and the arguments of Uninstall differ from the arguments composed
\* from the receiver with no verb set.
C7_OneVerbFlag ==
    \A k \in 1..Len(launched) :
        LET a == launched[k].args IN
        /\ Cardinality({i \in 1..Len(a) : a[i] \in VerbFlags}) = 1
        /\ \E i \in 1..Len(a) : a[i] = VerbFlagOf(launched[k].verb)
        /\ launched[k].verb = "Uninstall" => a # composeArgs(res)

\* C8: when a read of stdout has failed the operation is on its way out with
\* that error: the channel is open and was never closed, stderr is unread, no
\* send is pending, and the consumer can receive nothing more, not even the
\* close.
C8_ReadErrorLeavesChannelOpen ==
    ret.kind = "read" =>
        /\ pc \in {"defer", "ret"}
        /\ ~chClosed
        /\ closes = 0
        /\ ~stderrRead
        /\ pending = <<>>
        /\ ~ENABLED Recv
        /\ ~ENABLED ReadLine

\* C8: lines were read, then a read failed and the operation returned, while
\* a consumer is still receiving.
C8_Witness ==
    /\ ret.kind = "read"
    /\ pc = "ret"
    /\ cpc = "ranging"
    /\ written # <<>>
    /\ stdout = <<>>

\* C9: when start() has failed the operation has returned that failure and
\* nothing else has happened: no record sent or pending, the channel open
\* and never closed, no byte read, stderr unread, no exit awaited.
C9_StartFailureReturnsAtOnce ==
    ret.kind \in StartFailures =>
        /\ pc = "ret"
        /\ received = <<>>
        /\ pending = <<>>
        /\ ~chClosed
        /\ closes = 0
        /\ written = <<>>
        /\ ~stderrRead
        /\ waited = 0

\* C9: the stderr pipe could not be made, and the operation has returned that
\* to a caller whose consumer is receiving.
C9_Witness ==
    /\ ret = Error("stderrpipe", <<>>)
    /\ pc = "ret"
    /\ cpc = "ranging"
    /\ Len(launched) = 1

\* the fields of Classic a setter assigns
FieldsOf(name) ==
    CASE name = "Locale" -> {"locale"}
      [] name = "Proxy" -> {"proxy"}
      [] name = "ProxyAuth" -> {"proxyAuth"}
      [] name = "Select" -> {"selectedApps"}
      [] name = "Exclude" -> {"excludedApps"}
      [] name = "Remote" -> {"remote"}
      [] name = "RemoteAuth" -> {"remoteAuth"}
      [] name = "DisableShortcuts" -> {"disableShortcuts"}
      [] name = "DisableAutoUpdate" -> {"disableAutoUpdate"}
      [] name = "AllUsers" -> {"allUsers"}
      [] name = "CachePath" -> {"cachePath"}
      [] name = "NoCache" -> {"noCache"}
      [] name = "CleanCache" -> {"cleanCache"}

\* C10: a setter call leaves its receiver as it was and returns a value that
\* differs from it only in the fields of that option; a verb call leaves the
\* caller's values as they were; and a step that assigns neither of the
\* caller's configuration values (such as a write to the list the caller
\* passed to Select) leaves the arguments each composes as they were.
C10_ConfigurationsAreValues ==
    [][/\ calls' # calls =>
            /\ recv' = res
            /\ \A f \in (DOMAIN res) \ FieldsOf(calls'[Len(calls')]) : res'[f] = res[f]
       /\ verb' # verb => (recv' = recv /\ res' = res)
       /\ recv' = recv => composeArgs(recv)' = composeArgs(recv)
       /\ res' = res => composeArgs(res)' = composeArgs(res)]_vars

\* the text of a line after its separator: after the first colon and the
\* white space that follows it
RECURSIVE DropSpace(_)
DropSpace(s) == IF s # <<>> /\ Head(s) \in WS THEN DropSpace(Tail(s)) ELSE s
RECURSIVE AfterColon(_)
AfterColon(s) ==
    IF s = <<>> THEN <<>>
    ELSE IF Head(s) = ":" THEN Tail(s) ELSE AfterColon(Tail(s))
AfterSeparator(line) == DropSpace(AfterColon(line))
\* the line carries marker mk: mk opens the text after the separator and a
\* character of a version follows it
CarriesMarker(line, mk) ==
    LET rest == AfterSeparator(line) IN
    /\ Len(rest) >= 2
    /\ rest[1] = mk
    /\ rest[2] \notin {"\r", "\n", "(", ")"}

\* C11: the record List builds from a line it has read never has
\* CurrentVersion and AlternateVersion both true; CurrentVersion is true
\* exactly when the line carries the marker *, AlternateVersion exactly when
\* it carries the marker ( ; and for the line `App Name : *1.2.3` List builds
\* the record with version 1.2.3, current, not alternate.
C11_VersionMarkers ==
    (pc = "parsed" /\ verb = "List") =>
        /\ \A i \in 1..Len(pending) :
            /\ ~(pending[i].CurrentVersion /\ pending[i].AlternateVersion)
            /\ pending[i].CurrentVersion <=> CarriesMarker(written, "*")
            /\ pending[i].AlternateVersion <=> CarriesMarker(written, "(")
        /\ written = VersionLine \o NL =>
            pending = <<[App |-> AppName, Version |-> <<"1", ".", "2", ".", "3">>,
                         CurrentVersion |-> TRUE, AlternateVersion |-> FALSE]>>

NotInstalled == <<"N", "o", "t", " ">> \o Installed

\* C12: the record Audit builds from a line it has read has Installed true
\* if and only if its Version is not empty, whatever its Status; for the
\* line `App Name : Installed - 1.2.3` Audit builds the record installed
\* with version 1.2.3, for the line `App Name : Not Installed` the record
\* not installed with no version.
C12_InstalledIffVersion ==
    (pc = "parsed" /\ verb = "Audit") =>
        /\ \A i \in 1..Len(pending) :
            pending[i].Installed <=> pending[i].Version # <<>>
        /\ written = AuditLine \o NL =>
            pending = <<[App |-> AppName, Status |-> Installed,
                         Version |-> <<"1", ".", "2", ".", "3">>, Installed |-> TRUE]>>
        /\ written = NotInstalledLine \o NL =>
            pending = <<[App |-> AppName, Status |-> NotInstalled,
                         Version |-> <<>>, Installed |-> FALSE]>>

\* the subprocess is blocked writing to stderr and has not closed stdout
BlockedBeforeEOF == stderrBlocked /\ stdoutOpen

AllDone == chClosed /\ pc = "ret" /\ cpc = "done"

\* the operation has returned the error of a failed read of stdout, leaving
\* the channel open and the consumer in its receive
ReturnedReadError == pc = "ret" /\ ret.kind = "read" /\ ~chClosed /\ cpc = "ranging"

\* C13: whenever the operation is in its loop (the subprocess launched) and
\* a consumer is receiving concurrently, then, unless the subprocess blocks
\* in a write to stderr, the operation eventually returns: either it has
\* closed the channel and the consumer's receive loop has ended, or a read
\* of stdout has failed and it has returned that error with the channel
\* open; and after a failed read the channel is never closed and the
\* consumer's receive loop never ends.
C13_EventuallyClosedAndReturned ==
    /\ (pc = "loop" /\ mode = "conc")
            ~> (AllDone \/ ReturnedReadError \/ stderrBlocked)
    /\ [](ret.kind = "read" => ~chClosed /\ cpc # "done")

\* C13 as stated, with no condition on the reads of stdout: whenever the
\* operation is in its loop and a consumer is receiving concurrently, then
\* eventually the channel is closed, the operation has returned and the
\* receive loop has ended, unless the subprocess blocks in a write to stderr.
C13_EventuallyClosedWhateverTheReads ==
    (pc = "loop" /\ mode = "conc") ~> (AllDone \/ stderrBlocked)

C13_Witness ==
    /\ AllDone
    /\ mode = "conc"
    /\ CountNL(written) = MaxLines
    /\ ret.kind = "nil"

\* the records of the lines ls as the loop handles them: one for each line
\* that, as read, matches the pattern of v
RECURSIVE RecordsOfLines(_, _)
RecordsOfLines(v, ls) ==
    IF ls = <<>> THEN <<>>
    ELSE LET m == FindStringSubmatch(Pattern(v), Head(ls)) IN
         (IF Matched(m) THEN <<RecordOf(v, m)>> ELSE <<>>) \o RecordsOfLines(v, Tail(ls))

\* the text written after the last newline
RECURSIVE LastText(_)
LastText(s) ==
    LET n == IndexNL(s, 1) IN
    IF n = 0 THEN s ELSE LastText(SubSeq(s, n + 1, Len(s)))

\* C15: the records sent and received come from the newline-terminated lines
\* alone: whatever text follows the last newline, the record being sent and
\* the records received are records of terminated lines, in order; when the
\* consumer has seen the close it has received exactly those; and once the
\* stream has ended and only unterminated text is left to read, the loop
\* sends nothing more (its one next step is the close).
C15_UnterminatedTextDropped ==
    /\ IsPrefix(received \o pending, RecordsOfLines(verb, TerminatedLines(written)))
    /\ cpc = "done" => received = RecordsOfLines(verb, TerminatedLines(written))
    /\ (chClosed /\ ret.kind # "read") => stdout = <<>>
    /\ (~stdoutOpen /\ IndexNL(stdout, 1) = 0) => pc # "send"

C15_Witness ==
    /\ cpc = "done"
    /\ LastText(written) = StatusLine
    /\ CountNL(written) > 0
    /\ received = <<>>
    /\ chClosed

\* flag f opens a group of args that continues with the values vs
GroupAt(args, f, vs) ==
    \E i \in 1..Len(args) :
        /\ args[i] = f
        /\ i + Len(vs) =< Len(args)
        /\ SubSeq(args, i + 1, i + Len(vs)) = vs

HasFlag(args, f) == \E i \in 1..Len(args) : args[i] = f

\* the two-part option with flag f and parts vs of configuration c, set
\* when both is TRUE, is emitted whole or dropped whole: without is c with
\* the option not set at all
TwoPart(c, f, both, vs, without) ==
    /\ HasFlag(composeArgs(c), f) <=> both
    /\ both => GroupAt(composeArgs(c), f, vs)
    /\ ~both => composeArgs(c) = composeArgs(without)

\* C16: in the arguments composed from the value a call was made on, from
\* the value it returned and from the operation's own value, the proxy
\* group is there if and only if the server is not empty and the port is
\* not zero, the proxyauth and remoteauth groups if and only if both the
\* username and the password are not empty; a group that is there is the
\* flag followed by its two values, and a group that is not there leaves
\* the arguments as they are with the option not set at all.
C16_TwoPartOptions ==
    \A c \in {recv, res, opc} :
        /\ TwoPart(c, "/proxy", c.proxy.server # "" /\ c.proxy.port # 0,
                   <<c.proxy.server, Itoa(c.proxy.port)>>,
                   [c EXCEPT !.proxy = [server |-> "", port |-> 0]])
        /\ TwoPart(c, "/proxyauth",
                   c.proxyAuth.username # "" /\ c.proxyAuth.password # "",
                   <<c.proxyAuth.username, c.proxyAuth.password>>,
                   [c EXCEPT !.proxyAuth = [username |-> "", password |-> ""]])
        /\ TwoPart(c, "/remoteauth",
                   c.remoteAuth.username # "" /\ c.remoteAuth.password # "",
                   <<c.remoteAuth.username, c.remoteAuth.password>>,
                   [c EXCEPT !.remoteAuth = [username |-> "", password |-> ""]])

C16_Witness ==
    /\ Len(launched) = 1
    /\ opc.proxy = [server |-> "px", port |-> 0]
    /\ opc.remoteAuth = [username |-> "u", password |-> "pw"]
    /\ launched[1].args = <<"/silent", ".", "/remoteauth", "u", "pw", "/updateonly">>

\* C17: the arguments Audit launches with and the arguments List launches
\* with are the same function of the configuration the operation was called
\* on: its composed arguments followed by the list verb, and no other verb
\* flag; the two operations apply different patterns.
C17_AuditAndListSameArgs ==
    \A k \in 1..Len(launched) :
        launched[k].verb \in {"List", "Audit"} =>
            /\ launched[k].args = composeArgs(res) \o <<"/list", "versions">>
            /\ launched[k].args = composeArgs(ListVerb(res))
            /\ Cardinality({i \in 1..Len(launched[k].args) :
                                launched[k].args[i] \in VerbFlags}) = 1
            /\ Pattern("List") = versionMatch
            /\ Pattern("Audit") = auditMatch
            /\ versionMatch # auditMatch

C17_Witness ==
    /\ Len(launched) = 1
    /\ launched[1].verb = "Audit"
    /\ launched[1].args = <<"/silent", ".", "/locale", "en", "/list", "versions">>
====
